---- MODULE Spec2Model ----
(***************************************************************************)
(* everscore: the mode arbiter of the virtual scoreboard client            *)
(* (src/everscore.py).  Three execution contexts -- the serial (hardware)  *)
(* thread, the UDP receive thread and the Qt main thread -- exchange       *)
(* events through Qt signals; the main thread owns the QML scene (the      *)
(* operator switches and the renderer's digit properties).                 *)
(***************************************************************************)
EXTENDS Integers, Sequences, FiniteSets, TLC

(***************************************************************************)
(* Python values.  A value is a record [t, n, s]: t is the Python type,    *)
(* n the number it holds (a float holds its value in tenths) and s its     *)
(* text, one character per element (a list holds one-character strings).   *)
(***************************************************************************)
PyNone == [t |-> "none", n |-> 0, s |-> <<>>]

PyInt(k) == [t |-> "int", n |-> k, s |-> <<>>]

PyFloat(tenths) == [t |-> "float", n |-> tenths, s |-> <<>>]

PyInf == [t |-> "inf", n |-> 0, s |-> <<>>]

PyStr(chars) == [t |-> "str", n |-> 0, s |-> chars]

PyList(elems) == [t |-> "list", n |-> 0, s |-> elems]

DigitChars == <<"0", "1", "2", "3", "4", "5", "6", "7", "8", "9">>

IsDigit(ch) == \E i \in 1..10 : DigitChars[i] = ch

DigitVal(ch) == (CHOOSE i \in 1..10 : DigitChars[i] = ch) - 1

Contains(chars, ch) == \E i \in 1..Len(chars) : chars[i] = ch

(* str.strip(): leading and trailing blanks removed *)
RECURSIVE LStrip(_)
LStrip(chars) ==
    IF chars # <<>> /\ Head(chars) = " " THEN LStrip(Tail(chars)) ELSE chars

RECURSIVE RStrip(_)
RStrip(chars) ==
    IF chars # <<>> /\ chars[Len(chars)] = " "
    THEN RStrip(SubSeq(chars, 1, Len(chars) - 1))
    ELSE chars

RECURSIVE DigitsValue(_, _)
DigitsValue(chars, acc) ==
    IF chars = <<>> THEN acc
    ELSE DigitsValue(Tail(chars), 10 * acc + DigitVal(Head(chars)))

(* int(text): blanks stripped, an optional sign, then one or more digits;  *)
(* anything else is a ValueError (ok = FALSE).                             *)
ParseDigits(digits, negative) ==
    IF digits = <<>> \/ \E i \in 1..Len(digits) : ~IsDigit(digits[i])
    THEN [ok |-> FALSE, v |-> 0]
    ELSE [ok |-> TRUE,
          v |-> IF negative THEN 0 - DigitsValue(digits, 0)
                ELSE DigitsValue(digits, 0)]

ParseSigned(body) ==
    IF body # <<>> /\ Head(body) \in {"+", "-"}
    THEN ParseDigits(Tail(body), Head(body) = "-")
    ELSE ParseDigits(body, FALSE)

ParseInt(chars) == ParseSigned(RStrip(LStrip(chars)))

(* int(x) for a float truncates toward zero *)
TruncTenths(tenths) ==
    IF tenths >= 0 THEN tenths \div 10 ELSE 0 - ((0 - tenths) \div 10)

(* except (TypeError, ValueError): return default *)
IntOrDefault(parsed) ==
    [raised |-> FALSE, v |-> IF parsed.ok THEN parsed.v ELSE 0]

(* to_int(val, default=0): int(val), with TypeError and ValueError mapped  *)
(* to the default; int(inf) raises OverflowError, which is not caught.     *)
to_int(val) ==
    CASE val.t = "int" -> [raised |-> FALSE, v |-> val.n]
      [] val.t = "float" -> [raised |-> FALSE, v |-> TruncTenths(val.n)]
      [] val.t = "inf" -> [raised |-> TRUE, v |-> 0]
      [] val.t = "str" -> IntOrDefault(ParseInt(val.s))
      [] OTHER -> [raised |-> FALSE, v |-> 0]

RECURSIVE NatChars(_)
NatChars(k) ==
    IF k < 10 THEN <<DigitChars[k + 1]>>
    ELSE NatChars(k \div 10) \o <<DigitChars[(k % 10) + 1]>>

IntChars(k) == IF k < 0 THEN <<"-">> \o NatChars(0 - k) ELSE NatChars(k)

RECURSIVE ListReprBody(_)
ListReprBody(elems) ==
    IF elems = <<>> THEN <<>>
    ELSE <<"'", Head(elems), "'">>
         \o (IF Len(elems) > 1 THEN <<",", " ">> ELSE <<>>)
         \o ListReprBody(Tail(elems))

(* str(val) *)
PyStrOf(val) ==
    CASE val.t = "str" -> val.s
      [] val.t = "int" -> IntChars(val.n)
      [] val.t = "float" ->
            (IF val.n < 0 THEN <<"-">> ELSE <<>>)
            \o NatChars((IF val.n < 0 THEN 0 - val.n ELSE val.n) \div 10)
            \o <<".">>
            \o NatChars((IF val.n < 0 THEN 0 - val.n ELSE val.n) % 10)
      [] val.t = "inf" -> <<"i", "n", "f">>
      [] val.t = "none" -> <<"N", "o", "n", "e">>
      [] OTHER -> <<"[">> \o ListReprBody(val.s) \o <<"]">>

(* next((int(ch) for ch in period_str if ch.isdigit()), 0) *)
RECURSIVE FirstDigit(_)
FirstDigit(chars) ==
    IF chars = <<>> THEN 0
    ELSE IF IsDigit(Head(chars)) THEN DigitVal(Head(chars))
    ELSE FirstDigit(Tail(chars))

(* chars.split(sep, 1) for chars containing sep *)
RECURSIVE SplitFirst(_, _, _)
SplitFirst(chars, sep, left) ==
    IF Head(chars) = sep THEN <<left, Tail(chars)>>
    ELSE SplitFirst(Tail(chars), sep, Append(left, Head(chars)))

FirstChar(chars) == IF chars = <<>> THEN <<>> ELSE <<Head(chars)>>

(* lines 629-637: one tenth less in auto mode, never below zero *)
ClockValue(parsed, auto) ==
    [raised |-> FALSE,
     v |-> IF parsed > 0 THEN (IF auto THEN parsed - 1 ELSE parsed) ELSE 0]

(* lines 619-622 *)
FastClock(parts, auto) ==
    ClockValue(to_int(PyStr(parts[1])).v * 10
               + (IF parts[2] # <<>>
                  THEN to_int(PyStr(FirstChar(parts[2]))).v ELSE 0),
               auto)

(* lines 624-627 *)
StandardClock(parts, auto) ==
    ClockValue((to_int(PyStr(parts[1])).v * 60 + to_int(PyStr(parts[2])).v) * 10,
               auto)

ClockRaised == [raised |-> TRUE, v |-> 0]

(* the clock branch with the separators tested in the other order *)
ClockTenthsColonFirst(clock, auto) ==
    IF clock.t \notin {"str", "list"} THEN ClockRaised
    ELSE IF Contains(clock.s, ":")
    THEN (IF clock.t = "list" THEN ClockRaised
          ELSE StandardClock(SplitFirst(clock.s, ":", <<>>), auto))
    ELSE IF Contains(clock.s, ".")
    THEN (IF clock.t = "list" THEN ClockRaised
          ELSE FastClock(SplitFirst(clock.s, ".", <<>>), auto))
    ELSE ClockValue(0, auto)

(* The clock branch of handle_score_update: the value handed to            *)
(* clockTimeInTenths; raised when the membership test fails on the value's *)
(* type (TypeError) or the value found to contain the separator has no     *)
(* split (a list: AttributeError).  auto is is_auto_mode() as read at      *)
(* line 629.                                                               *)
ClockTenths(clock, auto) ==
    IF clock.t \notin {"str", "list"} THEN ClockRaised
    ELSE IF Contains(clock.s, ".")
    THEN (IF clock.t = "list" THEN ClockRaised
          ELSE FastClock(SplitFirst(clock.s, ".", <<>>), auto))
    ELSE IF Contains(clock.s, ":")
    THEN (IF clock.t = "list" THEN ClockRaised
          ELSE StandardClock(SplitFirst(clock.s, ":", <<>>), auto))
    ELSE ClockValue(0, auto)

ZeroClock == PyStr(<<"0", ":", "0", "0">>)


(***************************************************************************)
(* Field mappings: a record holding the keys that are present.             *)
(***************************************************************************)
EmptyDict == <<>>

(* state.get(key, default) *)
Get(state, key, default) ==
    IF key \in DOMAIN state THEN state[key] ELSE default

(***************************************************************************)
(* The renderer's properties, as handle_score_update sets them.            *)
(***************************************************************************)
BlankDisplay ==
    [home |-> 0, visitor |-> 0, shotTens |-> 0, shotOnes |-> 0,
     homeFouls |-> 0, visitorFouls |-> 0, period |-> 0, clockTenths |-> 0]

(* The properties set from the values lines 594-627 compute *)
Rendered(h, v, shot, home_fouls, visitor_fouls, period_num, clockTenths) ==
    [home |-> h, visitor |-> v,
     shotTens |-> (shot \div 10) % 10, shotOnes |-> shot % 10,
     homeFouls |-> home_fouls, visitorFouls |-> visitor_fouls,
     period |-> period_num, clockTenths |-> clockTenths]

(* What one complete run of handle_score_update hands to the renderer *)
Normalized(state, auto) ==
    Rendered(to_int(Get(state, "home_score", PyNone)).v,
             to_int(Get(state, "visitor_score", PyNone)).v,
             to_int(Get(state, "shot", PyNone)).v,
             to_int(Get(state, "home_fouls", PyNone)).v,
             to_int(Get(state, "visitor_fouls", PyNone)).v,
             FirstDigit(PyStrOf(Get(state, "period", PyStr(<<>>)))),
             ClockTenths(Get(state, "clock", ZeroClock), auto).v)

(* The first statement of handle_score_update that raises on this mapping: *)
(* 1 home_score .. 5 visitor_fouls (to_int), 7 the clock; 8 when none does *)
FirstRaise(state) ==
    IF to_int(Get(state, "home_score", PyNone)).raised THEN 1
    ELSE IF to_int(Get(state, "visitor_score", PyNone)).raised THEN 2
    ELSE IF to_int(Get(state, "shot", PyNone)).raised THEN 3
    ELSE IF to_int(Get(state, "home_fouls", PyNone)).raised THEN 4
    ELSE IF to_int(Get(state, "visitor_fouls", PyNone)).raised THEN 5
    ELSE IF ClockTenths(Get(state, "clock", ZeroClock), TRUE).raised THEN 7
    ELSE 8

(* The renderer after the statements before statement stop have run: the   *)
(* properties are set in source order, so a statement that raises leaves   *)
(* the earlier ones set and the later ones as they were.                   *)
SetUpTo(stop, full, shown) ==
    [shown |->
        [home |-> IF stop > 1 THEN full.home ELSE shown.home,
         visitor |-> IF stop > 2 THEN full.visitor ELSE shown.visitor,
         shotTens |-> IF stop > 3 THEN full.shotTens ELSE shown.shotTens,
         shotOnes |-> IF stop > 3 THEN full.shotOnes ELSE shown.shotOnes,
         homeFouls |-> IF stop > 4 THEN full.homeFouls ELSE shown.homeFouls,
         visitorFouls |->
             IF stop > 5 THEN full.visitorFouls ELSE shown.visitorFouls,
         period |-> IF stop > 6 THEN full.period ELSE shown.period,
         clockTenths |->
             IF stop > 7 THEN full.clockTenths ELSE shown.clockTenths],
     raised |-> stop < 8,
     applied |-> TRUE]

(* handle_score_update(state, basketballDigits).  digits and panel say     *)
(* whether the basketballDigits item and the controlPanel object are       *)
(* found.                                                                  *)
handle_score_update(state, shown, digits, panel, auto) ==
    IF ~digits \/ ~panel
    THEN [shown |-> shown, raised |-> FALSE, applied |-> FALSE]
    ELSE SetUpTo(FirstRaise(state), Normalized(state, auto), shown)

(***************************************************************************)
(* The wire format.  A datagram is held by its structure: whether its      *)
(* bytes are valid UTF-8, whether the text is JSON, the kind of the top    *)
(* JSON value and, for an object, its members.                             *)
(***************************************************************************)
JsonTag(t) ==
    CASE t = "none" -> "null"
      [] t = "int" -> "integer"
      [] t = "float" -> "real"
      [] t = "inf" -> "Infinity"
      [] t = "str" -> "string"
      [] OTHER -> "array"

PyTag(j) ==
    CASE j = "null" -> "none"
      [] j = "integer" -> "int"
      [] j = "real" -> "float"
      [] j = "Infinity" -> "inf"
      [] j = "string" -> "str"
      [] OTHER -> "list"

JsonOf(val) == [j |-> JsonTag(val.t), n |-> val.n, s |-> val.s]

PyOf(jv) == [t |-> PyTag(jv.j), n |-> jv.n, s |-> jv.s]

(* a datagram that leaves the clock out *)
json_dumps_without_clock(state) ==
    [enc |-> "utf8", syntax |-> "json", top |-> "object",
     members |-> [k \in DOMAIN state \ {"clock"} |-> JsonOf(state[k])]]

(* json.dumps(state).encode() *)
json_dumps(state) ==
    [enc |-> "utf8", syntax |-> "json", top |-> "object",
     members |-> [k \in DOMAIN state |-> JsonOf(state[k])]]

(* json.loads(payload_str): ok is FALSE on a JSONDecodeError *)
json_loads(text) ==
    IF text.syntax # "json"
    THEN [ok |-> FALSE, isDict |-> FALSE, d |-> EmptyDict]
    ELSE [ok |-> TRUE, isDict |-> text.top = "object",
          d |-> IF text.top = "object"
                THEN [k \in DOMAIN text.members |-> PyOf(text.members[k])]
                ELSE EmptyDict]

NoDatagram == [enc |-> "none"]

(***************************************************************************)
(* Inputs.                                                                 *)
(***************************************************************************)
MaxQueue == 2

(* receives counted after the shutdown flag is set *)
MaxReceives == 2

(* a complete console update *)
EvGame ==
    [home_score |-> PyStr(<<"1", "2">>), visitor_score |-> PyInt(7),
     shot |-> PyStr(<<"2", "4">>), home_fouls |-> PyInt(3),
     visitor_fouls |-> PyStr(<<"x">>), period |-> PyStr(<<"2", "n", "d">>),
     clock |-> PyStr(<<"7", ":", "0", "5">>)]

(* a partial update whose clock is null *)
EvNullClock == [home_score |-> PyInt(3), clock |-> PyNone]

HwEvents == {EvGame, EvNullClock}

DgUndecodable ==
    [enc |-> "invalid", syntax |-> "garbage", top |-> "none", members |-> <<>>]

DgNotJson ==
    [enc |-> "utf8", syntax |-> "garbage", top |-> "none", members |-> <<>>]

DgArray == [enc |-> "utf8", syntax |-> "json", top |-> "array", members |-> <<>>]

Senders == {"10.20.67.92", "10.0.0.9"}

(* what arrives on the socket: (datagram, sender address) *)
Packets ==
    {<<DgUndecodable, "10.20.67.92">>, <<DgNotJson, "10.20.67.92">>,
     <<DgArray, "10.20.67.92">>, <<json_dumps(EvGame), "10.20.67.92">>,
     <<json_dumps(EvGame), "10.0.0.9">>}

FilterTexts == {"", "10.20.67.92"}

(* clock texts: every text of at most MaxClockLen characters over digits,  *)
(* the two separators and a letter, and the texts of the design's examples *)
MaxClockLen == 4

ClockChars == {"0", "7", ".", ":", "x"}

RECURSIVE TextsUpTo(_)
TextsUpTo(len) ==
    IF len = 0 THEN {<<>>}
    ELSE TextsUpTo(len - 1)
         \cup {Append(text, ch) : text \in TextsUpTo(len - 1), ch \in ClockChars}

SampleClockTexts ==
    {<<"9", ".", "3">>, <<"7", ":", "0", "5">>, <<"1", "2", ":", "3", "4">>,
     <<"5", "9", ".", "9">>, <<"1", ":", "0", "0">>,
     <<"g", "a", "r", "b", "a", "g", "e">>}

ClockTexts == TextsUpTo(MaxClockLen) \cup SampleClockTexts

(* console updates that carry one clock text *)
ClockEvents == {[clock |-> PyStr(text)] : text \in ClockTexts}

(* console updates that carry the counters: every home score up to         *)
(* MaxScore, one past the three digits of the display, with the other      *)
(* counters running through their ranges along with it                     *)
MaxScore == 1000

CounterEvents ==
    {[home_score |-> PyInt(n), visitor_score |-> PyInt(MaxScore - n),
      shot |-> PyInt(n % 100), home_fouls |-> PyInt((n \div 10) % 100),
      visitor_fouls |-> PyInt(99 - (n % 100))] : n \in 0..MaxScore}

Contexts == {"main", "hw", "net"}

Signals == {"serial", "udp", "update"}

(* a signal emission: the signal, its argument and, for udp, the sender *)
SerialEvent(data) == [sig |-> "serial", arg |-> data, ip |-> ""]

UdpEvent(text, ip) == [sig |-> "udp", arg |-> text, ip |-> ip]

UpdateEvent(data) == [sig |-> "update", arg |-> data, ip |-> ""]

PushClick == [sig |-> "push", arg |-> EmptyDict, ip |-> ""]

(***************************************************************************)
(* State.                                                                  *)
(***************************************************************************)
VARIABLES
    manualChecked,     \* the "manualSwitch" item's checked property
    sendChecked,       \* the "modeSwitch" item's checked property
    sourceIpText,      \* the "sourceIpInput" item's text
    basketballDigits,  \* whether main() found the "basketballDigits" item
    sceneDigits,       \* whether findChild finds the "basketballDigits" item
    controlPanel,      \* whether findChild finds the "controlPanel" object
    shown,             \* the renderer's properties
    shutdown_event,    \* _shutdown_event
    failsafe,          \* prepareToQuit's timer: "idle", "armed", or "killed"
    recvAfterSet,      \* blocking receives that returned with the flag set
    mainQueue,         \* the main thread's queue of posted signal events
    pc,                \* each context's position
    frame,             \* the running slots, by context: locals and calls made
    arrived            \* per signal, the posted events not yet dispatched

vars ==
    <<manualChecked, sendChecked, sourceIpText, basketballDigits,
      sceneDigits, controlPanel,
      shown, shutdown_event, failsafe, recvAfterSet, mainQueue, pc, frame,
      arrived>>

is_auto_mode == ~manualChecked

is_send_mode == sendChecked

Mode(auto, send) == [auto |-> auto, send |-> send]

(* the frame of a slot entered for ev: modes are the modes selected while  *)
(* it runs, autoReads and sendReads what is_auto_mode() and is_send_mode() *)
(* returned to it, before the display it found.                            *)
NewFrame(ev, inOrder) ==
    [op |-> ev.sig, ev |-> ev, modes |-> {Mode(is_auto_mode, is_send_mode)},
     autoReads |-> {}, sendReads |-> {}, before |-> shown,
     state |-> IF ev.sig = "update" THEN ev.arg ELSE EmptyDict,
     ret |-> "done", filtered |-> FALSE, parsed |-> FALSE, emitted |-> FALSE,
     applied |-> FALSE, raised |-> FALSE, sent |-> FALSE, sendOk |-> FALSE,
     escaped |-> FALSE, flagAtSend |-> FALSE, dgram |-> NoDatagram, inOrder |-> inOrder]

Running == DOMAIN frame

(* a failed sendto with no handler around it *)
SendEscapesUncaught(ok) == ~ok

(* whether the outcome of sendto leaves the handler as an exception: the   *)
(* OSError of a failed send is caught and printed, lines 501-503 and       *)
(* 341-342                                                                 *)
SendEscapes(ok) == FALSE

(* frame with context c running fr *)
WithFrame(c, fr) ==
    [k \in Running \cup {c} |-> IF k = c THEN fr ELSE frame[k]]

(* frame once the slot of context c has returned *)
WithoutFrame(c) == [k \in Running \ {c} |-> frame[k]]

(* receive_loop, line 555: the loop test that follows each pass *)
LoopNeverTests == "recvfrom"

LoopTest == IF shutdown_event THEN "finished" ELSE "recvfrom"

(* where a context is when the slot it ran, or its emit, returns *)
Base(c) ==
    CASE c = "main" -> "idle"
      [] c = "hw" -> "export"
      [] OTHER -> LoopTest

(* the first statement of the slot a signal is connected to *)
Entry(sig) ==
    CASE sig = "serial" -> "serial_493"
      [] sig = "udp" -> "udp_507"
      [] OTHER -> "update"

(* a connection that calls the slot in the emitting thread *)
DirectConnection == "direct"

(* the connection types of the three connect() calls: the default *)

SerialConnection == "auto"

UdpConnection == "auto"

UpdateConnection == "auto"

(* delivery that never posts: every slot is called by its emitter *)
DeliveryDirect(conn, emitter, receiver) == "direct"

(* Qt's delivery of a signal emitted in context emitter to a receiver that *)
(* lives in context receiver: an auto connection calls the slot at once in  *)
(* the receiver's own thread and posts an event to it from any other.      *)
Delivery(conn, emitter, receiver) ==
    IF conn = "direct" \/ (conn = "auto" /\ emitter = receiver)
    THEN "direct" ELSE "queued"

(* a posted event joins the receiver's queue behind the earlier ones *)
Post(queue, ev) == Append(queue, ev)

RECURSIVE RemoveFirst(_, _)
RemoveFirst(seq, e) ==
    IF seq = <<>> THEN <<>>
    ELSE IF Head(seq) = e THEN Tail(seq)
    ELSE <<Head(seq)>> \o RemoveFirst(Tail(seq), e)

Init ==
    /\ manualChecked \in BOOLEAN
    /\ sendChecked \in BOOLEAN
    /\ sourceIpText \in FilterTexts
    /\ basketballDigits \in BOOLEAN
    /\ sceneDigits = basketballDigits
    /\ controlPanel \in BOOLEAN
    /\ shown = BlankDisplay
    /\ shutdown_event = FALSE
    /\ failsafe = "idle"
    /\ recvAfterSet = 0
    /\ mainQueue = <<>>
    /\ pc = [c \in Contexts |->
                CASE c = "main" -> "idle" [] c = "hw" -> "start" [] OTHER -> "recvfrom"]
    /\ frame = <<>>
    /\ arrived = [sig \in Signals |-> <<>>]

(***************************************************************************)
(* Signals.                                                                *)
(***************************************************************************)
(* signal.emit(ev) in context c from a worker loop: after it the context   *)
(* is back in its loop, or inside the slot when the call is direct.        *)
Emit(conn, c, ev) ==
    IF Delivery(conn, c, "main") = "queued"
    THEN /\ Len(mainQueue) < MaxQueue
         /\ mainQueue' = Post(mainQueue, ev)
         /\ arrived' = [arrived EXCEPT ![ev.sig] = Append(@, ev)]
         /\ pc' = [pc EXCEPT ![c] = Base(c)]
         /\ UNCHANGED frame
    ELSE /\ pc' = [pc EXCEPT ![c] = Entry(ev.sig)]
         /\ frame' = WithFrame(c, NewFrame(ev, TRUE))
         /\ UNCHANGED <<mainQueue, arrived>>

(* app.exec(): the main thread, between handlers, takes the oldest posted  *)
(* event and enters the slot connected to its signal.                      *)
Dispatch ==
    /\ pc["main"] = "idle"
    /\ mainQueue # <<>>
    /\ LET ev == Head(mainQueue)
       IN  /\ mainQueue' = Tail(mainQueue)
           /\ pc' = [pc EXCEPT !["main"] = Entry(ev.sig)]
           /\ frame' = WithFrame("main",
                  NewFrame(ev, arrived[ev.sig] # <<>> /\ Head(arrived[ev.sig]) = ev))
           /\ arrived' = [arrived EXCEPT ![ev.sig] = RemoveFirst(@, ev)]
    /\ UNCHANGED <<manualChecked, sendChecked, sourceIpText, basketballDigits,
                   sceneDigits, controlPanel, shown, shutdown_event, failsafe,
                   recvAfterSet>>

(* score_updater.updateScore.emit(state) in context c inside a handler     *)
(* whose next statement is at ret.                                         *)
EmitUpdate(c, fr, state, ret) ==
    IF Delivery(UpdateConnection, c, "main") = "direct"
    THEN /\ pc' = [pc EXCEPT ![c] = "update"]
         /\ frame' = [frame EXCEPT ![c] =
                [fr EXCEPT !.emitted = TRUE, !.state = state, !.ret = ret]]
         /\ UNCHANGED <<mainQueue, arrived>>
    ELSE /\ Len(mainQueue) < MaxQueue
         /\ mainQueue' = Post(mainQueue, UpdateEvent(state))
         /\ arrived' = [arrived EXCEPT !["update"] = Append(@, UpdateEvent(state))]
         /\ pc' = [pc EXCEPT ![c] = ret]
         /\ frame' = [frame EXCEPT ![c] = [fr EXCEPT !.emitted = TRUE]]

(***************************************************************************)
(* The slots.  A slot runs in the context that called it, one statement    *)
(* group per step; "done" is the slot about to return.                     *)
(***************************************************************************)
(* handle_serial_data, lines 493-496 *)
SerialAccepts(auto) == auto

SerialBegin(c) ==
    /\ pc[c] = "serial_493"
    /\ LET auto == is_auto_mode
           fr == [frame[c] EXCEPT !.autoReads = @ \cup {auto}]
       IN  IF ~SerialAccepts(auto)
           THEN /\ pc' = [pc EXCEPT ![c] = "done"]
                /\ frame' = [frame EXCEPT ![c] = fr]
                /\ UNCHANGED <<mainQueue, arrived>>
           ELSE EmitUpdate(c, fr, fr.ev.arg, "serial_498")
    /\ UNCHANGED <<manualChecked, sendChecked, sourceIpText, basketballDigits,
                   sceneDigits, controlPanel, shown, shutdown_event, failsafe,
                   recvAfterSet>>

(* the slot of context c takes the outcome of handle_score_update; auto is *)
(* what is_auto_mode() returned at line 629, if that line was reached      *)
TakeUpdate(c, res, auto) ==
    /\ shown' = res.shown
    /\ frame' = [frame EXCEPT ![c] =
           [@ EXCEPT !.applied = res.applied, !.raised = res.raised,
                     !.autoReads = IF res.applied /\ ~res.raised
                                   THEN @ \cup {auto} ELSE @]]

(* the lambda connected to updateScore: handle_score_update(data,          *)
(* basketballDigits).  An exception it raises is reported by the binding   *)
(* at the slot boundary and does not reach the emitter.                    *)
RunUpdate(c) ==
    /\ pc[c] = "update"
    /\ TakeUpdate(c, handle_score_update(frame[c].state, shown, basketballDigits,
                                         controlPanel, is_auto_mode),
                  is_auto_mode)
    /\ pc' = [pc EXCEPT ![c] = frame[c].ret]
    /\ UNCHANGED <<manualChecked, sendChecked, sourceIpText, basketballDigits,
                   sceneDigits, controlPanel, shutdown_event, failsafe,
                   recvAfterSet, mainQueue, arrived>>

(* a relay that does not ask for the send switch *)
SerialRetransmitsAlways(send, shutdown) == ~shutdown

(* handle_serial_data, lines 498-503 *)

SerialRetransmits(send, shutdown) == send /\ ~shutdown

SerialSend(c) ==
    /\ pc[c] = "serial_498"
    /\ frame' = [frame EXCEPT ![c].sendReads = @ \cup {is_send_mode}]
    /\ pc' = [pc EXCEPT ![c] =
                 IF SerialRetransmits(is_send_mode, shutdown_event)
                 THEN "serial_500" ELSE "done"]
    /\ UNCHANGED <<manualChecked, sendChecked, sourceIpText, basketballDigits,
                   sceneDigits, controlPanel, shown, shutdown_event, failsafe,
                   recvAfterSet, mainQueue, arrived>>

(* handle_serial_data, lines 499-503: sendto succeeds or fails; the flag   *)
(* is not tested again between line 498 and the call                       *)
SerialSendto(c) ==
    /\ pc[c] = "serial_500"
    /\ \E ok \in BOOLEAN :
           frame' = [frame EXCEPT ![c] =
               [@ EXCEPT !.sent = TRUE, !.sendOk = ok,
                         !.escaped = SendEscapes(ok),
                         !.flagAtSend = shutdown_event,
                         !.dgram = json_dumps(frame[c].ev.arg)]]
    /\ pc' = [pc EXCEPT ![c] = "done"]
    /\ UNCHANGED <<manualChecked, sendChecked, sourceIpText, basketballDigits,
                   sceneDigits, controlPanel, shown, shutdown_event, failsafe,
                   recvAfterSet, mainQueue, arrived>>


(* handle_udp_packet, line 507, left operand *)
UdpBegin(c) ==
    /\ pc[c] = "udp_507"
    /\ LET send == is_send_mode
       IN  /\ frame' = [frame EXCEPT ![c].sendReads = @ \cup {send}]
           /\ pc' = [pc EXCEPT ![c] = IF send THEN "done" ELSE "udp_507b"]
    /\ UNCHANGED <<manualChecked, sendChecked, sourceIpText, basketballDigits,
                   sceneDigits, controlPanel, shown, shutdown_event, failsafe,
                   recvAfterSet, mainQueue, arrived>>

(* a filter that lets every sender pass *)
PeerFilterNever(target, ip) == FALSE

(* handle_udp_packet, line 515 *)

PeerFilterRejects(target, ip) == target # "" /\ ip # target

(* publication without the isinstance test *)
UdpPublishesAny(loaded) == loaded.ok

(* handle_udp_packet, lines 519-520 *)

UdpPublishes(loaded) == loaded.ok /\ loaded.isDict

(* handle_udp_packet, line 507 right operand to line 522 *)
UdpDecide(c) ==
    /\ pc[c] = "udp_507b"
    /\ LET auto == is_auto_mode
           fr == [frame[c] EXCEPT !.autoReads = @ \cup {auto}]
           loaded == json_loads(fr.ev.arg)
           stop(f) == /\ pc' = [pc EXCEPT ![c] = "done"]
                      /\ frame' = [frame EXCEPT ![c] = f]
                      /\ UNCHANGED <<mainQueue, arrived>>
       IN  IF ~auto THEN stop(fr)
           ELSE IF PeerFilterRejects(sourceIpText, fr.ev.ip)
           THEN stop([fr EXCEPT !.filtered = TRUE])
           ELSE IF UdpPublishes(loaded)
           THEN EmitUpdate(c, [fr EXCEPT !.parsed = TRUE], loaded.d, "done")
           ELSE stop([fr EXCEPT !.parsed = TRUE])
    /\ UNCHANGED <<manualChecked, sendChecked, sourceIpText, basketballDigits,
                   sceneDigits, controlPanel, shown, shutdown_event, failsafe,
                   recvAfterSet>>

(* a slot returns *)
Return(c) ==
    /\ pc[c] = "done"
    /\ pc' = [pc EXCEPT ![c] = Base(c)]
    /\ frame' = WithoutFrame(c)
    /\ UNCHANGED <<manualChecked, sendChecked, sourceIpText, basketballDigits,
                   sceneDigits, controlPanel, shown, shutdown_event, failsafe,
                   recvAfterSet, mainQueue, arrived>>

(***************************************************************************)
(* The operator.  QML handlers run in the main thread, between slots.      *)
(***************************************************************************)
MainIdle == pc["main"] = "idle"

(* what a mode change adds to the handlers that are running *)
Witnessed(auto, send) ==
    [c \in Running |-> [frame[c] EXCEPT !.modes = @ \cup {Mode(auto, send)}]]

(* the scene creates the objects that were missing when main() looked     *)
(* them up; main()'s own reference (line 477) is not looked up again       *)
SceneCompletes ==
    /\ MainIdle
    /\ ~sceneDigits \/ ~controlPanel
    /\ sceneDigits' = TRUE
    /\ controlPanel' = TRUE
    /\ UNCHANGED <<manualChecked, sendChecked, sourceIpText, basketballDigits,
                   shown, shutdown_event, failsafe, recvAfterSet, mainQueue,
                   pc, frame, arrived>>

ToggleManual ==
    /\ MainIdle
    /\ manualChecked' = ~manualChecked
    /\ frame' = Witnessed(manualChecked, is_send_mode)
    /\ UNCHANGED <<sendChecked, sourceIpText, basketballDigits, sceneDigits,
                   controlPanel,
                   shown, shutdown_event, failsafe, recvAfterSet,
                   mainQueue, pc, arrived>>

ToggleSend ==
    /\ MainIdle
    /\ sendChecked' = ~sendChecked
    /\ frame' = Witnessed(is_auto_mode, ~sendChecked)
    /\ UNCHANGED <<manualChecked, sourceIpText, basketballDigits,
                   sceneDigits, controlPanel, shown, shutdown_event, failsafe,
                   recvAfterSet, mainQueue, pc, arrived>>

SetSourceIp ==
    /\ MainIdle
    /\ \E text \in FilterTexts \ {sourceIpText} : sourceIpText' = text
    /\ UNCHANGED <<manualChecked, sendChecked, basketballDigits, sceneDigits,
                   controlPanel,
                   shown, shutdown_event, failsafe, recvAfterSet,
                   mainQueue, pc, frame, arrived>>

(* The digit properties the QML scene keeps for a value it was handed    *)
(* (setScoreDigits, setFoulDigits, clockTimeInTenths in main.qml).         *)
HundredsDigit(k) == (k \div 100) % 10

TensDigit(k) == (k \div 10) % 10

OnesDigit(k) == k % 10

FastTenthsVisible(tenths) == tenths < 600

MinuteTensVisible(tenths) == tenths \div 600 >= 10

(* AppController._build_state_from_qml, lines 387-405: the clock text *)
ClockTextOf(tenths) ==
    LET seconds == tenths \div 10
        minutes == seconds \div 60
    IN  IF FastTenthsVisible(tenths)
        THEN NatChars(TensDigit(seconds) * 10 + OnesDigit(seconds))
             \o <<".">> \o NatChars(OnesDigit(tenths))
        ELSE NatChars((IF MinuteTensVisible(tenths)
                       THEN TensDigit(minutes) * 10 ELSE 0) + OnesDigit(minutes))
             \o <<":">>
             \o NatChars(TensDigit(seconds % 60))
             \o NatChars(OnesDigit(seconds % 60))

(* the state rebuilt without the hundreds digits *)
build_state_two_digits ==
    IF ~sceneDigits THEN EmptyDict
    ELSE [home_score |->
              PyInt(TensDigit(shown.home) * 10 + OnesDigit(shown.home)),
          visitor_score |->
              PyInt(TensDigit(shown.visitor) * 10 + OnesDigit(shown.visitor)),
          shot |-> PyInt(shown.shotTens * 10 + shown.shotOnes),
          home_fouls |->
              PyInt(TensDigit(shown.homeFouls) * 10 + OnesDigit(shown.homeFouls)),
          visitor_fouls |->
              PyInt(TensDigit(shown.visitorFouls) * 10
                    + OnesDigit(shown.visitorFouls)),
          period |-> PyInt(shown.period),
          clock |-> PyStr(ClockTextOf(shown.clockTenths))]

(* AppController._build_state_from_qml: {} when the digits item is not     *)
(* found, else the mapping recomposed from the digit properties.           *)
build_state_from_qml ==
    IF ~sceneDigits THEN EmptyDict
    ELSE [home_score |->
              PyInt(HundredsDigit(shown.home) * 100 + TensDigit(shown.home) * 10
                    + OnesDigit(shown.home)),
          visitor_score |->
              PyInt(HundredsDigit(shown.visitor) * 100
                    + TensDigit(shown.visitor) * 10 + OnesDigit(shown.visitor)),
          shot |-> PyInt(shown.shotTens * 10 + shown.shotOnes),
          home_fouls |->
              PyInt(TensDigit(shown.homeFouls) * 10 + OnesDigit(shown.homeFouls)),
          visitor_fouls |->
              PyInt(TensDigit(shown.visitorFouls) * 10
                    + OnesDigit(shown.visitorFouls)),
          period |-> PyInt(shown.period),
          clock |-> PyStr(ClockTextOf(shown.clockTenths))]

(* AppController.sendManualUpdate, line 334 left operand *)
sendManualUpdate ==
    /\ MainIdle
    /\ LET auto == is_auto_mode
           fr == [NewFrame(PushClick, TRUE) EXCEPT !.autoReads = {auto}]
       IN  /\ frame' = WithFrame("main", fr)
           /\ pc' = [pc EXCEPT !["main"] = IF auto THEN "done" ELSE "push_334b"]
    /\ UNCHANGED <<manualChecked, sendChecked, sourceIpText, basketballDigits,
                   sceneDigits, controlPanel, shown, shutdown_event, failsafe,
                   recvAfterSet, mainQueue, arrived>>

(* a push that does not test the rebuilt state *)
PushTransmitsAny(state, shutdown) == ~shutdown

(* AppController.sendManualUpdate, line 334 right operand to line 342 *)

PushTransmits(state, shutdown) == state # EmptyDict /\ ~shutdown

PushSend(c) ==
    /\ pc[c] = "push_334b"
    /\ IF is_send_mode /\ PushTransmits(build_state_from_qml, shutdown_event)
       THEN /\ frame' = [frame EXCEPT ![c] =
                   [@ EXCEPT !.sendReads = @ \cup {is_send_mode},
                             !.state = build_state_from_qml]]
            /\ pc' = [pc EXCEPT ![c] = "push_340"]
       ELSE /\ frame' = [frame EXCEPT ![c].sendReads = @ \cup {is_send_mode}]
            /\ pc' = [pc EXCEPT ![c] = "done"]
    /\ UNCHANGED <<manualChecked, sendChecked, sourceIpText, basketballDigits,
                   sceneDigits, controlPanel, shown, shutdown_event, failsafe,
                   recvAfterSet, mainQueue, arrived>>

(* AppController.sendManualUpdate, lines 339-342: sendto succeeds or       *)
(* fails; the flag is not tested again between line 338 and the call       *)
PushSendto(c) ==
    /\ pc[c] = "push_340"
    /\ \E ok \in BOOLEAN :
           frame' = [frame EXCEPT ![c] =
               [@ EXCEPT !.sent = TRUE, !.sendOk = ok,
                         !.escaped = SendEscapes(ok),
                         !.flagAtSend = shutdown_event,
                         !.dgram = json_dumps(frame[c].state)]]
    /\ pc' = [pc EXCEPT ![c] = "done"]
    /\ UNCHANGED <<manualChecked, sendChecked, sourceIpText, basketballDigits,
                   sceneDigits, controlPanel, shown, shutdown_event, failsafe,
                   recvAfterSet, mainQueue, arrived>>

(***************************************************************************)
(* The worker threads.                                                     *)
(***************************************************************************)
(* the end of a thread taken for the end of the process *)
ThreadEndsProcess(c) == [k \in Contexts |-> "finished"]

(* serial_thread_target returns (line 534, or line 546 after the except    *)
(* clause of 542-545): its thread ends, the other contexts stay where they *)
(* are                                                                     *)
ThreadEnds(c) == [pc EXCEPT ![c] = "finished"]

(* serial_thread_target: no port is found, or opening it fails *)
SerialThreadDisabled ==
    /\ pc["hw"] = "start"
    /\ pc' = ThreadEnds("hw")
    /\ UNCHANGED <<manualChecked, sendChecked, sourceIpText, basketballDigits,
                   sceneDigits, controlPanel, shown, shutdown_event, failsafe,
                   recvAfterSet, mainQueue, frame, arrived>>

(* serial_thread_target: the port opens and export() starts reading *)
SerialThreadOpens ==
    /\ pc["hw"] = "start"
    /\ pc' = [pc EXCEPT !["hw"] = "export"]
    /\ UNCHANGED <<manualChecked, sendChecked, sourceIpText, basketballDigits,
                   sceneDigits, controlPanel, shown, shutdown_event, failsafe,
                   recvAfterSet, mainQueue, frame, arrived>>

(* export() decodes an update and calls on_update, the signal's emit *)
OnUpdate ==
    /\ pc["hw"] = "export"
    /\ \E data \in HwEvents : Emit(SerialConnection, "hw", SerialEvent(data))
    /\ UNCHANGED <<manualChecked, sendChecked, sourceIpText, basketballDigits,
                   sceneDigits, controlPanel, shown, shutdown_event, failsafe,
                   recvAfterSet>>

(* export() raises: the thread reports it and ends *)
SerialThreadFails ==
    /\ pc["hw"] = "export"
    /\ pc' = ThreadEnds("hw")
    /\ UNCHANGED <<manualChecked, sendChecked, sourceIpText, basketballDigits,
                   sceneDigits, controlPanel, shown, shutdown_event, failsafe,
                   recvAfterSet, mainQueue, frame, arrived>>

(* one more blocking recvfrom has returned: counted once the flag is set *)
CountedReceive ==
    IF shutdown_event /\ recvAfterSet < MaxReceives
    THEN recvAfterSet + 1 ELSE recvAfterSet

(* receive_loop, lines 559-560: socket.timeout, then the loop test *)
ReceiveTimeout ==
    /\ pc["net"] = "recvfrom"
    /\ recvAfterSet' = CountedReceive
    /\ pc' = [pc EXCEPT !["net"] = LoopTest]
    /\ UNCHANGED <<manualChecked, sendChecked, sourceIpText, basketballDigits,
                   sceneDigits, controlPanel, shown, shutdown_event,
                   failsafe, mainQueue, frame, arrived>>

(* receive_loop, lines 561-564: OSError *)
ReceiveError ==
    /\ pc["net"] = "recvfrom"
    /\ recvAfterSet' = CountedReceive
    /\ pc' = [pc EXCEPT !["net"] = "finished"]
    /\ UNCHANGED <<manualChecked, sendChecked, sourceIpText, basketballDigits,
                   sceneDigits, controlPanel, shown, shutdown_event,
                   failsafe, mainQueue, frame, arrived>>

(* payload.decode(): FALSE when it raises UnicodeDecodeError *)
Decodes(dgram) == dgram.enc = "utf8"

(* receive_loop, lines 557-558: a datagram arrives.  UnicodeDecodeError is  *)
(* neither socket.timeout nor OSError: it leaves the loop and the thread.  *)
Receive ==
    /\ pc["net"] = "recvfrom"
    /\ recvAfterSet' = CountedReceive
    /\ \E packet \in Packets :
           IF Decodes(packet[1])
           THEN Emit(UdpConnection, "net", UdpEvent(packet[1], packet[2]))
           ELSE /\ pc' = [pc EXCEPT !["net"] = "crashed"]
                /\ UNCHANGED <<mainQueue, frame, arrived>>
    /\ UNCHANGED <<manualChecked, sendChecked, sourceIpText, basketballDigits,
                   sceneDigits, controlPanel, shown, shutdown_event, failsafe>>

Next ==
    \/ Dispatch
    \/ \E c \in Contexts : SerialBegin(c)
    \/ \E c \in Contexts : RunUpdate(c)
    \/ \E c \in Contexts : SerialSend(c)
    \/ \E c \in Contexts : SerialSendto(c)
    \/ \E c \in Contexts : UdpBegin(c)
    \/ \E c \in Contexts : UdpDecide(c)
    \/ \E c \in Contexts : PushSend(c)
    \/ \E c \in Contexts : PushSendto(c)
    \/ \E c \in Contexts : Return(c)
    \/ ToggleManual
    \/ ToggleSend
    \/ SetSourceIp
    \/ sendManualUpdate
    \/ SerialThreadDisabled
    \/ SerialThreadOpens
    \/ OnUpdate
    \/ SerialThreadFails
    \/ ReceiveTimeout
    \/ ReceiveError
    \/ Receive
    \/ SceneCompletes

Spec == Init /\ [][Next]_vars

(***************************************************************************)
(* Teardown.                                                               *)
(***************************************************************************)
(* AppController.prepareToQuit, called by the scene when the window is     *)
(* closing: threading.Timer(0.5, kill_process).start()                     *)
prepareToQuit ==
    /\ MainIdle
    /\ failsafe' = "armed"
    /\ UNCHANGED <<manualChecked, sendChecked, sourceIpText, basketballDigits,
                   sceneDigits, controlPanel, shown, shutdown_event,
                   recvAfterSet, mainQueue,
                   pc, frame, arrived>>

(* a timer that fires only once the worker threads have ended *)
FailsafeAfterWorkers ==
    /\ failsafe = "armed"
    /\ pc["hw"] = "finished"
    /\ pc["net"] \in {"finished", "crashed"}

(* the timer thread runs kill_process half a second after it was started,  *)
(* whatever the other threads are doing                                    *)
FailsafeDue == failsafe = "armed"

(* kill_process, lines 318-327: SIGKILL to the process group (SIGTERM to   *)
(* the process on Windows), os._exit(1) if that raises: the process and    *)
(* all its threads are gone.                                               *)
FailsafeFires ==
    /\ FailsafeDue
    /\ failsafe' = "killed"
    /\ pc' = [c \in Contexts |-> "killed"]
    /\ frame' = <<>>
    /\ mainQueue' = <<>>
    /\ arrived' = [sig \in Signals |-> <<>>]
    /\ UNCHANGED <<manualChecked, sendChecked, sourceIpText, basketballDigits,
                   sceneDigits, controlPanel, shown, shutdown_event,
                   recvAfterSet>>

(* the window has closed and app.exec() returns, line 572: the main thread *)
(* leaves the event loop and sys.exit waits for the threads that are not   *)
(* daemons, of which the timer thread is one (a Timer started from the     *)
(* main thread); the timer is not touched                                  *)
ExecReturns ==
    /\ MainIdle
    /\ failsafe = "armed"
    /\ pc' = [pc EXCEPT !["main"] = "exited"]
    /\ UNCHANGED <<manualChecked, sendChecked, sourceIpText, basketballDigits,
                   sceneDigits, controlPanel, shown, shutdown_event, failsafe,
                   recvAfterSet, mainQueue, frame, arrived>>

NextTeardown ==
    \/ Next
    \/ prepareToQuit
    \/ ExecReturns
    \/ FailsafeFires

(* the timer thread is scheduled: once due, kill_process runs *)
SpecTeardown == Init /\ [][NextTeardown]_vars /\ WF_vars(FailsafeFires)

(* _shutdown_event.set().  No statement of the program makes this call;    *)
(* it is the input under which receive_loop's test of the flag is          *)
(* exercised.                                                              *)
SetShutdown ==
    /\ ~shutdown_event
    /\ shutdown_event' = TRUE
    /\ UNCHANGED <<manualChecked, sendChecked, sourceIpText, basketballDigits,
                   sceneDigits, controlPanel, shown, failsafe, recvAfterSet,
                   mainQueue, pc,
                   frame, arrived>>

NextShutdown ==
    \/ Next
    \/ SetShutdown

SpecShutdown == Init /\ [][NextShutdown]_vars

(***************************************************************************)
(* The codec: one console update is waiting in the main thread's queue,    *)
(* the worker threads have ended, the operator has the switches and the    *)
(* push button.                                                            *)
(***************************************************************************)
CodecEvents == ClockEvents \cup CounterEvents

InitCodec ==
    /\ manualChecked = FALSE
    /\ sendChecked \in BOOLEAN
    /\ sourceIpText = ""
    /\ basketballDigits = TRUE
    /\ sceneDigits = TRUE
    /\ controlPanel = TRUE
    /\ shown = BlankDisplay
    /\ shutdown_event = FALSE
    /\ failsafe = "idle"
    /\ recvAfterSet = 0
    /\ \E data \in CodecEvents :
           /\ mainQueue = <<SerialEvent(data)>>
           /\ arrived = [sig \in Signals |->
                            IF sig = "serial" THEN <<SerialEvent(data)>> ELSE <<>>]
    /\ pc = [c \in Contexts |-> IF c = "main" THEN "idle" ELSE "finished"]
    /\ frame = <<>>

NextCodec ==
    \/ Dispatch
    \/ SerialBegin("main")
    \/ RunUpdate("main")
    \/ SerialSend("main")
    \/ SerialSendto("main")
    \/ PushSend("main")
    \/ PushSendto("main")
    \/ Return("main")
    \/ ToggleManual
    \/ ToggleSend
    \/ sendManualUpdate

SpecCodec == InitCodec /\ [][NextCodec]_vars


(***************************************************************************)
(* Properties.                                                             *)
(***************************************************************************)
(* a slot of the given kind is about to return in context c *)
Finished(c, op) == c \in Running /\ pc[c] = "done" /\ frame[c].op = op

IsJsonObject(text) == text.syntax = "json" /\ text.top = "object"

(* C1: a hardware event processed by handle_serial_data is published to    *)
(* the renderer (updateScore is emitted) exactly when auto is on, and is   *)
(* handed to sendto exactly when auto and send are both on; in manual mode *)
(* it causes neither and leaves the display as it was.                     *)
C1_HardwareModeTable ==
    \A c \in Contexts :
        Finished(c, "serial") =>
            \A m \in frame[c].modes :
                /\ frame[c].emitted <=> m.auto
                /\ frame[c].sent <=> (m.auto /\ m.send)
                /\ ~m.auto => shown = frame[c].before /\ ~frame[c].applied

(* a hardware event was processed in auto+send: published and retransmitted *)
C1_Witness ==
    /\ Finished("main", "serial")
    /\ frame["main"].emitted
    /\ frame["main"].sent
    /\ frame["main"].modes = {Mode(TRUE, TRUE)}

(* C2: a network event processed by handle_udp_packet is published to the  *)
(* renderer exactly when auto is on, send is off, the peer filter passes   *)
(* and the payload is a JSON object; otherwise it is ignored (the display  *)
(* stays as it was); in no regime does it cause a network transmission.    *)
C2_NetworkModeTable ==
    \A c \in Contexts :
        Finished(c, "udp") =>
            \A m \in frame[c].modes :
                /\ frame[c].emitted <=>
                       /\ m.auto
                       /\ ~m.send
                       /\ sourceIpText = "" \/ frame[c].ev.ip = sourceIpText
                       /\ IsJsonObject(frame[c].ev.arg)
                /\ ~frame[c].sent
                /\ ~frame[c].emitted => shown = frame[c].before

(* a network event was published in auto+receive and sent nothing *)
C2_Witness ==
    /\ Finished("main", "udp")
    /\ frame["main"].emitted
    /\ frame["main"].applied
    /\ ~frame["main"].sent
    /\ frame["main"].modes = {Mode(TRUE, FALSE)}


(* the datagram a manual push builds from the digits now displayed *)
CarriesDisplayedDigits(dgram) ==
    /\ IsJsonObject(dgram)
    /\ dgram.members["home_score"] =
           [j |-> "integer", n |-> shown.home % 1000, s |-> <<>>]
    /\ dgram.members["visitor_score"] =
           [j |-> "integer", n |-> shown.visitor % 1000, s |-> <<>>]
    /\ dgram.members["shot"] =
           [j |-> "integer", n |-> 10 * shown.shotTens + shown.shotOnes, s |-> <<>>]
    /\ dgram.members["period"] = [j |-> "integer", n |-> shown.period, s |-> <<>>]

(* C3 as stated: a manual push hands the state rebuilt from the displayed  *)
(* digits to sendto exactly when the mode is manual+send, and never        *)
(* changes the display.                                                    *)
C3_PushAsStated ==
    \A c \in Contexts :
        Finished(c, "push") =>
            \A m \in frame[c].modes :
                /\ frame[c].sent <=> (~m.auto /\ m.send)
                /\ frame[c].sent => CarriesDisplayedDigits(frame[c].dgram)
                /\ shown = frame[c].before

(* C3, amended: a manual push hands the state rebuilt from the displayed   *)
(* digits to sendto exactly when the mode is manual+send and the digits    *)
(* item is found in the scene (without it nothing is rebuilt and nothing   *)
(* is sent); in auto mode and in manual+receive nothing is sent; a push    *)
(* never changes the display.                                              *)
C3_PushModeTable ==
    \A c \in Contexts :
        Finished(c, "push") =>
            \A m \in frame[c].modes :
                /\ frame[c].sent <=> (~m.auto /\ m.send /\ sceneDigits)
                /\ frame[c].sent => CarriesDisplayedDigits(frame[c].dgram)
                /\ shown = frame[c].before

(* a push in manual+send transmitted a display that an earlier event set *)
C3_Witness ==
    /\ Finished("main", "push")
    /\ frame["main"].sent
    /\ frame["main"].modes = {Mode(FALSE, TRUE)}
    /\ shown # BlankDisplay

(* C4: with the peer filter set and a sender address other than the        *)
(* filter's, a network event is dropped before json.loads: nothing is      *)
(* parsed, nothing published and the display is unchanged; with the filter *)
(* empty, or the sender equal to it, an event in auto+receive reaches      *)
(* json.loads whatever its sender.                                         *)
C4_PeerFilter ==
    \A c \in Contexts :
        Finished(c, "udp") =>
            /\ (sourceIpText # "" /\ frame[c].ev.ip # sourceIpText) =>
                   /\ ~frame[c].parsed
                   /\ ~frame[c].emitted
                   /\ ~frame[c].applied
                   /\ shown = frame[c].before
            /\ (sourceIpText = "" \/ frame[c].ev.ip = sourceIpText) =>
                   \A m \in frame[c].modes :
                       (m.auto /\ ~m.send) => frame[c].parsed

(* in auto+receive a well-formed event from another sender was filtered *)
C4_Witness ==
    /\ Finished("main", "udp")
    /\ frame["main"].modes = {Mode(TRUE, FALSE)}
    /\ frame["main"].filtered
    /\ sourceIpText = "10.20.67.92"
    /\ frame["main"].ev.ip = "10.0.0.9"
    /\ IsJsonObject(frame["main"].ev.arg)

(* C5: a malformed datagram (undecodable bytes, invalid JSON, JSON that is *)
(* no object) is dropped: it never ends the receive loop, raises nothing   *)
(* into the arbiter and leaves the display unchanged.                      *)
C5_MalformedDropped ==
    /\ pc["net"] # "crashed"
    /\ \A c \in Contexts :
           (Finished(c, "udp") /\ ~IsJsonObject(frame[c].ev.arg)) =>
               /\ ~frame[c].emitted
               /\ ~frame[c].raised
               /\ shown = frame[c].before

(* C6: handle_score_update never raises, whatever the mapping holds *)
C6_NormalizerNeverRaises == \A c \in Running : ~frame[c].raised

(* C7: once an accepted event is applied, every displayed field is the one *)
(* derived from that event alone.                                          *)
C7_FullReplacement ==
    \A c \in Running :
        (pc[c] \in {"serial_498", "done"} /\ frame[c].applied) =>
            shown = Normalized(frame[c].state, TRUE)

(* C8: all reads of the two switches made while one hardware or network    *)
(* event is decided agree with one mode that was the selected mode at some *)
(* instant of that handler.                                                *)
C8_ModeSnapshot ==
    \A c \in Running :
        frame[c].op \in {"serial", "udp", "update"} =>
            \E m \in frame[c].modes :
                /\ frame[c].autoReads \subseteq {m.auto}
                /\ frame[c].sendReads \subseteq {m.send}

(* a hardware event was decided on three reads: auto twice, send once *)
C8_Witness ==
    /\ Finished("main", "serial")
    /\ frame["main"].autoReads = {TRUE}
    /\ frame["main"].sendReads = {TRUE}
    /\ frame["main"].applied
    /\ ~frame["main"].raised

(* the posted events of one signal, in queue order *)
OfSignal(queue, sig) == SelectSeq(queue, LAMBDA ev : ev.sig = sig)

(* the events of one source are dispatched in arrival order: a dispatched  *)
(* event is the oldest pending arrival of its signal, and the pending ones *)
(* wait in arrival order                                                   *)
ArrivalOrderKept ==
    /\ \A c \in Running : frame[c].inOrder
    /\ \A sig \in {"serial", "udp"} : OfSignal(mainQueue, sig) = arrived[sig]

(* C9: the accepted events of one source reach the arbiter and the         *)
(* renderer in arrival order, and the display an accepted event leaves     *)
(* once it has been applied is that event's state.                         *)
C9_ArrivalOrder ==
    /\ ArrivalOrderKept
    /\ \A c \in Contexts :
           (Finished(c, "serial") /\ frame[c].applied) =>
               shown = Normalized(frame[c].ev.arg, TRUE)

(* C10: the worker threads only emit: neither ever stands inside a slot or *)
(* inside handle_score_update; the renderer is written by the main thread. *)
C10_RenderInMain ==
    /\ pc["hw"] \in {"start", "export", "finished"}
    /\ pc["net"] \in {"recvfrom", "finished", "crashed"}
    /\ Running \subseteq {"main"}

(* the main thread wrote the renderer for an event the serial thread posted *)
C10_Witness ==
    /\ pc["main"] = "serial_498"
    /\ "main" \in Running
    /\ frame["main"].applied
    /\ shown # frame["main"].before
    /\ pc["hw"] = "export"

(* C11: once the shutdown flag is set, receive_loop makes at most one more *)
(* blocking receive, and when that receive has returned (timeout, data or  *)
(* error) the loop is not waiting in recvfrom again: it has ended.         *)
C11_ShutdownObserved ==
    /\ recvAfterSet <= 1
    /\ recvAfterSet = 1 => pc["net"] \in {"finished", "crashed"}

(* the flag was set during a receive that then returned data: the datagram *)
(* was handed on and the loop ended                                        *)
C11_Witness ==
    /\ shutdown_event
    /\ recvAfterSet = 1
    /\ pc["net"] = "finished"
    /\ arrived["udp"] # <<>>

(* C12: once prepareToQuit has armed the failsafe, the process is          *)
(* terminated, also with the serial thread blocked in export() and the     *)
(* receive thread in its loop.                                             *)
C12_FailsafeTerminates == (failsafe = "armed") ~> (failsafe = "killed")

(* teardown was requested with the serial thread reading and the receive   *)
(* thread in recvfrom                                                      *)
C12_Witness ==
    /\ failsafe = "armed"
    /\ pc["hw"] = "export"
    /\ pc["net"] = "recvfrom"

(* C13: after teardown is requested the shutdown flag is set, so that the  *)
(* receive loop ends on its own test of the flag.                          *)
C13_FlagSetOnTeardown == failsafe # "idle" => shutdown_event

(* the position of the first ch in chars *)
FirstIndex(chars, ch) ==
    CHOOSE i \in 1..Len(chars) :
        chars[i] = ch /\ \A j \in 1..(i - 1) : chars[j] # ch

RECURSIVE NumeralValue(_)
NumeralValue(chars) ==
    IF chars = <<>> THEN 0
    ELSE 10 * NumeralValue(SubSeq(chars, 1, Len(chars) - 1))
         + DigitVal(chars[Len(chars)])

(* a part of a clock text read as a number: its value when it is one or    *)
(* more digits, else 0                                                     *)
Tolerant(chars) ==
    IF chars # <<>> /\ \A i \in 1..Len(chars) : IsDigit(chars[i])
    THEN NumeralValue(chars) ELSE 0

(* S.T read at position i of the first "." *)
FastAt(text, i) ==
    10 * Tolerant(SubSeq(text, 1, i - 1))
    + (IF i < Len(text) THEN Tolerant(<<text[i + 1]>>) ELSE 0)

(* M:SS read at position i of the first ":" *)
StandardAt(text, i) ==
    10 * (60 * Tolerant(SubSeq(text, 1, i - 1))
          + Tolerant(SubSeq(text, i + 1, Len(text))))

(* the time a clock text stands for, in tenths of a second: Fast when it   *)
(* holds a ".", Standard when it holds a ":" and no ".", else none (0)     *)
WrittenTenths(text) ==
    IF \E i \in 1..Len(text) : text[i] = "."
    THEN FastAt(text, FirstIndex(text, "."))
    ELSE IF \E i \in 1..Len(text) : text[i] = ":"
    THEN StandardAt(text, FirstIndex(text, ":"))
    ELSE 0

(* the same time one tenth earlier, as an accepting (automatic) mode hands *)
(* it on *)
OneTenthEarlier(tenths) == IF tenths > 0 THEN tenths - 1 ELSE 0

(* a console update carrying only a clock text has been applied *)
ClockApplied(c) ==
    /\ Finished(c, "serial")
    /\ frame[c].applied
    /\ DOMAIN frame[c].ev.arg = {"clock"}

(* C14: a clock text holding "." is read as Fast at its first "." (also    *)
(* when it holds ":"), one holding ":" and no "." as Standard at its first *)
(* ":", and one holding neither gives the zero clock; none raises.         *)
C14_ClockClassification ==
    \A c \in Contexts :
        ClockApplied(c) =>
            /\ ~frame[c].raised
            /\ shown.clockTenths =
                   OneTenthEarlier(WrittenTenths(frame[c].ev.arg["clock"].s))

(* a text holding both separators, ":" first, was read as Fast: "7:0.7" is *)
(* out of the texts' length, "0:.7" is 0 seconds and 7 tenths              *)
C14_Witness ==
    /\ ClockApplied("main")
    /\ frame["main"].ev.arg["clock"].s = <<"0", ":", ".", "7">>
    /\ shown.clockTenths = 6

(* C15: the clock value handed to the scene for an accepted console       *)
(* update is exactly the time written in its clock text ("9.3" is 9        *)
(* seconds and 3 tenths, "7:05" is 7 minutes 5 seconds), in every mode in  *)
(* which the update is accepted.                                           *)
C15_ClockAsWritten ==
    \A c \in Contexts :
        ClockApplied(c) =>
            shown.clockTenths = WrittenTenths(frame[c].ev.arg["clock"].s)

(* a send of the handler running in c has failed *)
SendFailed(c) == c \in Running /\ frame[c].sent /\ ~frame[c].sendOk

(* C16: a failed network send is not fatal: no error leaves the handler,   *)
(* which returns as after a successful send; for a console update the      *)
(* publication made before the send stays in effect (the display is what   *)
(* the update made of it), and the console and network mode tables keep    *)
(* holding for every update handled afterwards.                            *)
C16_SendFailureNonFatal ==
    /\ \A c \in Contexts :
          SendFailed(c) =>
              /\ ~frame[c].escaped
              /\ pc[c] = "done"
              /\ frame[c].op = "serial" =>
                     /\ frame[c].emitted
                     /\ shown = handle_score_update(frame[c].ev.arg,
                                     frame[c].before, basketballDigits,
                                     controlPanel, TRUE).shown
    /\ C1_HardwareModeTable
    /\ C2_NetworkModeTable

(* the send of a console update failed after the update changed the display *)
C16_Witness ==
    /\ SendFailed("main")
    /\ frame["main"].op = "serial"
    /\ frame["main"].applied
    /\ shown # frame["main"].before

(* the console thread has ended *)
HardwareEnded == pc["hw"] = "finished"

(* the step in which the console thread ends touches nothing but that      *)
(* thread, and once it has ended no console update is added to those that  *)
(* wait for the main thread                                                *)
HardwareEndsAlone ==
    /\ (~HardwareEnded /\ HardwareEnded') =>
           /\ \A c \in Contexts \ {"hw"} : pc'[c] = pc[c]
           /\ UNCHANGED <<mainQueue, frame, shown, arrived>>
    /\ HardwareEnded =>
           /\ HardwareEnded'
           /\ Len(arrived'["serial"]) <= Len(arrived["serial"])

(* C17: when the console feed is not found, cannot be opened or fails      *)
(* while running, the console thread ends and nothing else does; no        *)
(* console update arrives afterwards, and network updates keep being       *)
(* received and arbitrated by the network mode table.                      *)
C17_HardwareFailureContained ==
    [][HardwareEndsAlone]_vars /\ []C2_NetworkModeTable

(* a network update received after the console thread ended was displayed *)
C17_Witness ==
    /\ HardwareEnded
    /\ Finished("main", "udp")
    /\ frame["main"].applied
    /\ ~frame["main"].raised
    /\ arrived["serial"] = <<>>
    /\ pc["net"] = "recvfrom"

(* the scene holds both objects the binding needs *)
BindingAvailable == sceneDigits /\ controlPanel

(* an update handled while the binding is missing changes nothing on the   *)
(* display and raises nothing, and a console update in automatic+send mode *)
(* is retransmitted all the same                                           *)
MissingBindingIgnored ==
    \A c \in Contexts :
        (Finished(c, "serial") \/ Finished(c, "udp")) /\ ~BindingAvailable =>
            /\ shown = frame[c].before
            /\ ~frame[c].raised
            /\ frame[c].modes = {Mode(TRUE, TRUE)} /\ frame[c].op = "serial"
                   => frame[c].sent

(* C18: while the renderer binding is missing (the digits item or the      *)
(* control panel is not found) an update has no visible effect and raises  *)
(* no error, and a console update in automatic+send mode is still          *)
(* retransmitted; once the binding is available, updates that are          *)
(* published reach the display.                                            *)
C18_BindingMissing ==
    /\ MissingBindingIgnored
    /\ \A c \in Contexts :
          (Finished(c, "serial") \/ Finished(c, "udp"))
          /\ BindingAvailable /\ frame[c].emitted
              => frame[c].applied

(* the ranges the display's digits cover *)
ThreeDigits == {PyInt(n) : n \in 0..999}

TwoDigits == {PyInt(v) : v \in 0..99}

(* a console update carrying the counters has been applied *)
CountersApplied(c) ==
    /\ Finished(c, "serial")
    /\ frame[c].applied
    /\ "home_score" \in DOMAIN frame[c].ev.arg

(* the counter named key of the update handled in c comes back from the    *)
(* display as it was written, if it lies in range                          *)
ComesBack(c, key, range) ==
    frame[c].ev.arg[key] \in range =>
        build_state_from_qml[key] = frame[c].ev.arg[key]

(* C19: a score from 0 to 999 split into hundreds, tens and ones for the   *)
(* display is rebuilt from the digits as the same score, and a shot clock  *)
(* or foul count from 0 to 99 split into tens and ones is rebuilt as the   *)
(* same value.                                                             *)
C19_DigitRoundTrip ==
    \A c \in Contexts :
        CountersApplied(c) =>
            /\ ComesBack(c, "home_score", ThreeDigits)
            /\ ComesBack(c, "visitor_score", ThreeDigits)
            /\ ComesBack(c, "shot", TwoDigits)
            /\ ComesBack(c, "home_fouls", TwoDigits)
            /\ ComesBack(c, "visitor_fouls", TwoDigits)

(* the largest score of three digits and the largest shot clock of two     *)
(* came back from the display                                              *)
C19_Witness ==
    /\ CountersApplied("main")
    /\ frame["main"].ev.arg["home_score"] = PyInt(999)
    /\ frame["main"].ev.arg["shot"] = PyInt(99)
    /\ build_state_from_qml["home_score"] = PyInt(999)
    /\ build_state_from_qml["shot"] = PyInt(99)

(* what the display shows of a clock value: seconds and tenths when the    *)
(* tenths are visible, else minutes (the tens only when visible) and       *)
(* seconds                                                                 *)
DisplayedClock(tenths) ==
    IF FastTenthsVisible(tenths)
    THEN [secondTens |-> TensDigit(tenths \div 10),
          secondOnes |-> OnesDigit(tenths \div 10),
          fastTenths |-> OnesDigit(tenths)]
    ELSE [minuteTensVisible |-> MinuteTensVisible(tenths),
          minuteTens |-> IF MinuteTensVisible(tenths)
                         THEN TensDigit(tenths \div 600) ELSE 0,
          minuteOnes |-> OnesDigit(tenths \div 600),
          secondTens |-> TensDigit((tenths \div 10) % 60),
          secondOnes |-> OnesDigit((tenths \div 10) % 60)]

(* the clock on the display of a peer that has accepted the datagram; auto *)
(* is what the peer's is_auto_mode() returns at line 629, TRUE whenever it *)
(* accepts                                                                 *)
PeerClock(dgram, auto) ==
    handle_score_update(json_loads(dgram).d, BlankDisplay, TRUE, TRUE,
                        auto).shown.clockTenths

(* a manual push has sent the displayed state *)
Pushed(c) == Finished(c, "push") /\ frame[c].sent

(* C20: the clock text a manual push builds from the displayed digits is   *)
(* decoded by a peer that accepts it to the same displayed value: the same *)
(* seconds and tenths, or the same minutes and seconds.                    *)
C20_ClockRoundTrip ==
    \A c \in Contexts :
        Pushed(c) =>
            DisplayedClock(PeerClock(frame[c].dgram, TRUE))
                = DisplayedClock(shown.clockTenths)

(* the same round trip on a peer that would not take the tenth off, for    *)
(* the clocks the display can show (under 100 minutes)                     *)
RoundTripButForTheTenth ==
    \A c \in Contexts :
        Pushed(c) /\ shown.clockTenths < 60000 =>
            DisplayedClock(PeerClock(frame[c].dgram, FALSE))
                = DisplayedClock(shown.clockTenths)

(* the event loop has ended on its own: graceful shutdown is complete *)
GracefulShutdownComplete == pc["main"] = "exited"

(* C21: the failsafe timer armed at teardown is disarmed when graceful     *)
(* shutdown completes before its deadline, so that the forced termination  *)
(* fires only when graceful shutdown has not completed by then.            *)
C21_FailsafeDisarmed == GracefulShutdownComplete => failsafe # "armed"

(* the updateScore slot of a peer in automatic receive mode, whose filter  *)
(* admits the sender and whose binding is found, run on the mapping the    *)
(* peer decodes from the datagram, with before on the peer's display       *)
PeerUpdate(dgram, before) ==
    handle_score_update(json_loads(dgram).d, before, TRUE, TRUE, TRUE)

(* a display that differs from the blank one in every property *)
OtherDisplay == Rendered(9, 9, 99, 9, 9, 9, 9)

(* a console update was displayed and retransmitted *)
Retransmitted(c) ==
    Finished(c, "serial") /\ frame[c].sent /\ frame[c].applied

NoSendDecidedAfterShutdown ==
    [][\A c \in Contexts :
          shutdown_event /\ c \in Running /\ pc[c] \in {"serial_498", "push_334b"}
              => pc'[c] \notin {"serial_500", "push_340"}]_vars

====
